---- MODULE Spec2Model ----
(***************************************************************************)
(* A model of axios-error-manager (src/src/index.ts): the hierarchical     *)
(* ErrorHandlerRegistry, handleError / handleErrorObject, the dispatch     *)
(* entry point responseErrorHandler with its Axios branch, and the         *)
(* createDealWith factory.                                                 *)
(*                                                                         *)
(* Every call of the library is synchronous, so one call is one action.    *)
(* An action computes the call's run: the sequence of observable events    *)
(* (store lookups, resolver calls, hooks, notifier calls) and the way the  *)
(* call ends (a return value or a thrown error).                           *)
(***************************************************************************)
EXTENDS Integers, Sequences, FiniteSets, TLC

(***************************************************************************)
(* JavaScript values.  A scalar is [t, s, n]: its type tag, its string     *)
(* payload and its number payload.  "absent" marks a property that the     *)
(* object does not have (so that `key in obj` is false), which differs     *)
(* from a property holding undefined.                                      *)
(***************************************************************************)
Scalar(t, s, n) == [t |-> t, s |-> s, n |-> n]
Absent == Scalar("absent", "", 0)
Undefined == Scalar("undefined", "", 0)
Str(s) == Scalar("string", s, 0)
Num(n) == Scalar("number", "", n)
Bool(b) == Scalar("boolean", IF b THEN "true" ELSE "false", 0)
\* a hook or callback: s names what it does when called ("ok" or "throw")
Fn(s) == Scalar("function", s, 0)
\* an opaque object payload (the notify options of a descriptor)
Payload(s) == Scalar("object", s, 0)

\* reading a property: an absent property reads as undefined
Get(x) == IF x.t = "absent" THEN Undefined ELSE x

\* JavaScript truthiness (ToBoolean)
Truthy(x) ==
  CASE x.t = "string" -> x.s # ""
    [] x.t = "number" -> x.n # 0
    [] x.t = "boolean" -> x.s = "true"
    [] x.t \in {"absent", "undefined", "null"} -> FALSE
    [] OTHER -> TRUE

\* x ?? y
Nullish(x) == x.t \in {"absent", "undefined", "null"}

Digit(d) ==
  CASE d = 0 -> "0" [] d = 1 -> "1" [] d = 2 -> "2" [] d = 3 -> "3"
    [] d = 4 -> "4" [] d = 5 -> "5" [] d = 6 -> "6" [] d = 7 -> "7"
    [] d = 8 -> "8" [] OTHER -> "9"

RECURSIVE NatToString(_)
NatToString(n) ==
  IF n < 10 THEN Digit(n) ELSE NatToString(n \div 10) \o Digit(n % 10)

\* String(x) for the scalars of the model
JSString(x) ==
  CASE x.t = "string" -> x.s
    [] x.t = "number" -> NatToString(x.n)
    [] x.t = "boolean" -> x.s
    [] x.t = "null" -> "null"
    [] x.t \in {"absent", "undefined"} -> "undefined"
    [] OTHER -> "[object]"

(***************************************************************************)
(* Objects seen through the five properties the library reads.             *)
(***************************************************************************)
Obj(message, before, after, silent, notify) ==
  [message |-> message, before |-> before, after |-> after,
   silent |-> silent, notify |-> notify]
EmptyObj == Obj(Absent, Absent, Absent, Absent, Absent)

\* A value that may be an object: a scalar plus the object's properties.
Value(t, s, o) == [t |-> t, s |-> s, n |-> 0, o |-> o]
UndefinedValue == Value("undefined", "", EmptyObj)
BoolValue(b) == Value("boolean", IF b THEN "true" ELSE "false", EmptyObj)
ObjValue(o) == Value("object", "", o)
ArrayValue == Value("array", "", EmptyObj)

(***************************************************************************)
(* Handlers: a string, an object (descriptor or not), or a function whose  *)
(* return value is r.  s names a function; an absent Map entry reads as    *)
(* NoHandler (undefined).                                                  *)
(***************************************************************************)
Handler(t, s, o, r) == [t |-> t, s |-> s, o |-> o, r |-> r]
NoHandler == Handler("undefined", "", EmptyObj, UndefinedValue)
StringHandler(s) == Handler("string", s, EmptyObj, UndefinedValue)
ObjectHandler(o) == Handler("object", "", o, UndefinedValue)
ArrayHandler == Handler("array", "", EmptyObj, UndefinedValue)
FunctionHandler(name, r) == Handler("function", name, EmptyObj, r)

\* truthiness of a handler value, as tested by `if (handler)` and `!handler`
HandlerTruthy(h) ==
  CASE h.t = "undefined" -> FALSE
    [] h.t = "string" -> h.s # ""
    [] OTHER -> TRUE

\* a handler seen as a plain value, for isErrorHandlerObject
AsValue(h) == Value(h.t, h.s, h.o)

\* typeof value: null and arrays are objects as well
TypeOf(value) == IF value.t \in {"null", "array"} THEN "object" ELSE value.t
\* Array.isArray(value)
IsArray(value) == value.t = "array"

\* a bug: an array that exposes a field is taken for a descriptor
isErrorHandlerObjectAcceptsArrays(value) ==
  IF Truthy(value) /\ TypeOf(value) = "object"
    THEN \E key \in {"message", "after", "before", "silent", "notify"} :
           value.o[key].t # "absent"
  ELSE FALSE

isErrorHandlerObject(value) ==
  IF Truthy(value) /\ TypeOf(value) = "object" /\ ~IsArray(value)
    THEN \E key \in {"message", "after", "before", "silent", "notify"} :
           value.o[key].t # "absent"
  ELSE FALSE

(***************************************************************************)
(* Stores.  regs maps a store's identity to its three private fields:      *)
(* handlers (a Map, here a function on the registered keys), parent (a     *)
(* store identity or Null) and notifier (the notifier's identity).         *)
(***************************************************************************)
Null == "null"
DefaultNotifier == "defaultNotifier"
EmptyMap == [k \in {} |-> NoHandler]

\* Map.get
MapGet(m, k) == IF k \in DOMAIN m THEN m[k] ELSE NoHandler
\* Map.set
MapSet(m, k, h) == [x \in DOMAIN m \cup {k} |-> IF x = k THEN h ELSE m[x]]
\* Map.delete
MapDelete(m, k) == [x \in DOMAIN m \ {k} |-> m[x]]

\* register(key, handler): the store's fields after the call
register(store, key, handler) ==
  [store EXCEPT !.handlers = MapSet(store.handlers, key, handler)]

\* unregister(key)
unregister(store, key) ==
  [store EXCEPT !.handlers = MapDelete(store.handlers, key)]

\* registerMany(input): input is the sequence Object.entries(input) of
\* <<key, handler>> pairs, registered in order
RECURSIVE registerMany(_, _)
registerMany(store, input) ==
  IF input = <<>> THEN store
  ELSE registerMany(register(store, Head(input)[1], Head(input)[2]), Tail(input))

\* setNotifier(fn): fn is a notifier identity, or a non-callable value
\* written NotCallable
NotCallable == "notCallable"
\* a bug: the value is stored without the test that it is a function
setNotifierUnchecked(store, fn) == [store EXCEPT !.notifier = fn]

setNotifier(store, fn) ==
  IF fn # NotCallable THEN [store EXCEPT !.notifier = fn] ELSE store

\* new ErrorHandlerRegistry(parent, input, notifier); an omitted parent is
\* Null, an omitted input is <<>>, an omitted notifier is NotCallable
NewRegistry(parent, input, notifier) ==
  registerMany([handlers |-> EmptyMap,
                parent |-> parent,
                notifier |-> IF notifier # NotCallable THEN notifier
                             ELSE DefaultNotifier],
               input)

(***************************************************************************)
(* Events of a run and the way a call ends.                                *)
(***************************************************************************)
Event(e, store, key, to, type, msg, extra) ==
  [e |-> e, store |-> store, key |-> key, to |-> to, type |-> type,
   msg |-> msg, extra |-> extra]
\* find consulted store's own Map for key
FindEvent(store, key) == Event("find", store, key, "", "", Absent, Absent)
\* the resolver function registered under key was called
ResolverEvent(key) == Event("resolver", "", key, "", "", Absent, Absent)
\* a hook ("before" or "after") of the descriptor resolved for key was called
HookEvent(e, key) == Event(e, "", key, "", "", Absent, Absent)
\* notifier `to` was called with {type, message, ...extra}
NotifyEvent(to, key, type, msg, extra) ==
  Event("notify", "", key, to, type, msg, extra)

Out(o, v) == [o |-> o, v |-> v]
Return(v) == Out("return", v)
ThrowApiError(message) == Out("ApiError", message)
\* `throw error`: the failure that was passed in, itself
Rethrow == Out("rethrow", "")
ThrowNullError == Out("Error", "Unrecoverable error: error is null")
\* an exception raised by a hook or a resolver
Thrown(by) == Out("thrown", by)
Throws(out) == out.o # "return"

Run(ev, out) == [ev |-> ev, out |-> out]
\* the one element of a set that has one: {e(x) : x \in {v}} is e with x
\* standing for the value of v, computed once
Once(S) == CHOOSE x \in S : TRUE

\* new ApiError(message).message: Error(undefined) has the empty message,
\* any other value is converted to a string
ErrorMessage(x) == IF x.t \in {"absent", "undefined"} THEN "" ELSE JSString(x)

(***************************************************************************)
(* find(seek) on store s: the handler found and the stores consulted.      *)
(***************************************************************************)
\* a bug: after a miss of the parent the store looks at its own Map again
RECURSIVE findRevisits(_, _, _)
findRevisits(regs, s, seek) ==
  LET handler == MapGet(regs[s].handlers, seek)
      here == <<FindEvent(s, seek)>>
  IN  IF HandlerTruthy(handler) THEN [h |-> handler, ev |-> here]
      ELSE IF regs[s].parent = Null THEN [h |-> NoHandler, ev |-> here]
      ELSE LET up == findRevisits(regs, regs[s].parent, seek)
           IN  IF HandlerTruthy(up.h) THEN [h |-> up.h, ev |-> here \o up.ev]
               ELSE [h |-> NoHandler, ev |-> here \o up.ev \o here]

\* a bug: the store answers from its own entries and never asks its parent
findOwnOnly(regs, s, seek) ==
  LET handler == MapGet(regs[s].handlers, seek)
  IN  [h |-> IF HandlerTruthy(handler) THEN handler ELSE NoHandler,
       ev |-> <<FindEvent(s, seek)>>]

RECURSIVE find(_, _, _)
find(regs, s, seek) ==
  LET handler == MapGet(regs[s].handlers, seek)
      here == <<FindEvent(s, seek)>>
  IN  IF HandlerTruthy(handler) THEN [h |-> handler, ev |-> here]
      ELSE IF regs[s].parent = Null THEN [h |-> NoHandler, ev |-> here]
      ELSE LET up == find(regs, regs[s].parent, seek)
           IN  [h |-> up.h, ev |-> here \o up.ev]

(***************************************************************************)
(* handleErrorObject(error, options) on store s.  key is the key under     *)
(* which options was resolved ("" for a descriptor built by the caller);   *)
(* it only labels the events.                                              *)
(***************************************************************************)
\* {type: 'negative', message, ...(notify ?? {})}: a payload may override
\* the type
NotifyType(notify) ==
  IF notify.t = "object" /\ notify.s = "type:warning" THEN "warning"
  ELSE "negative"
\* and it may override the message as well
NotifyMessage(message, notify) ==
  IF notify.t = "object" /\ notify.s = "message:other" THEN Str("other")
  ELSE message

\* a bug: the notifier is called before the before hook has run
handleErrorObjectNotifiesFirst(regs, s, error, options, key) ==
  LET before == Get(options.before)
      after == Get(options.after)
      ev1 == IF before.t = "function" THEN <<HookEvent("before", key)>> ELSE <<>>
      ev2 == IF ~Truthy(Get(options.silent))
             THEN <<NotifyEvent(regs[s].notifier, key, NotifyType(Get(options.notify)),
                                NotifyMessage(Get(options.message), Get(options.notify)),
                                Get(options.notify))>>
             ELSE <<>>
      ev3 == IF after.t = "function" THEN <<HookEvent("after", key)>> ELSE <<>>
  IN  IF before.t = "function" /\ before.s = "throw"
        THEN Run(ev2 \o ev1, Thrown("before"))
      ELSE IF after.t = "function" /\ after.s = "throw"
        THEN Run(ev2 \o ev1 \o ev3, Thrown("after"))
      ELSE Run(ev2 \o ev1 \o ev3, ThrowApiError(ErrorMessage(Get(options.message))))

\* a bug: a silent descriptor is executed without the final throw
handleErrorObjectReturnsWhenSilent(regs, s, error, options, key) ==
  LET before == Get(options.before)
      after == Get(options.after)
      ev1 == IF before.t = "function" THEN <<HookEvent("before", key)>> ELSE <<>>
      ev2 == IF ~Truthy(Get(options.silent))
             THEN <<NotifyEvent(regs[s].notifier, key, NotifyType(Get(options.notify)),
                                NotifyMessage(Get(options.message), Get(options.notify)),
                                Get(options.notify))>>
             ELSE <<>>
      ev3 == IF after.t = "function" THEN <<HookEvent("after", key)>> ELSE <<>>
  IN  IF before.t = "function" /\ before.s = "throw"
        THEN Run(ev1, Thrown("before"))
      ELSE IF after.t = "function" /\ after.s = "throw"
        THEN Run(ev1 \o ev2 \o ev3, Thrown("after"))
      ELSE IF Truthy(Get(options.silent))
        THEN Run(ev1 \o ev2 \o ev3, Return("undefined"))
      ELSE Run(ev1 \o ev2 \o ev3, ThrowApiError(ErrorMessage(Get(options.message))))

\* a bug: the notifier is called again once the after hook has run
handleErrorObjectNotifiesTwice(regs, s, error, options, key) ==
  LET before == Get(options.before)
      after == Get(options.after)
      ev1 == IF before.t = "function" THEN <<HookEvent("before", key)>> ELSE <<>>
      ev2 == IF ~Truthy(Get(options.silent))
             THEN <<NotifyEvent(regs[s].notifier, key, NotifyType(Get(options.notify)),
                                NotifyMessage(Get(options.message), Get(options.notify)),
                                Get(options.notify))>>
             ELSE <<>>
      ev3 == IF after.t = "function" THEN <<HookEvent("after", key)>> ELSE <<>>
  IN  IF before.t = "function" /\ before.s = "throw"
        THEN Run(ev1, Thrown("before"))
      ELSE IF after.t = "function" /\ after.s = "throw"
        THEN Run(ev1 \o ev2 \o ev3, Thrown("after"))
      ELSE Run(ev1 \o ev2 \o ev3 \o ev2,
               ThrowApiError(ErrorMessage(Get(options.message))))

handleErrorObject(regs, s, error, options, key) ==
  LET before == Get(options.before)
      after == Get(options.after)
      ev1 == IF before.t = "function" THEN <<HookEvent("before", key)>> ELSE <<>>
      ev2 == IF ~Truthy(Get(options.silent))
             THEN <<NotifyEvent(regs[s].notifier, key, NotifyType(Get(options.notify)),
                                NotifyMessage(Get(options.message), Get(options.notify)),
                                Get(options.notify))>>
             ELSE <<>>
      ev3 == IF after.t = "function" THEN <<HookEvent("after", key)>> ELSE <<>>
  IN  IF before.t = "function" /\ before.s = "throw"
        THEN Run(ev1, Thrown("before"))
      ELSE IF after.t = "function" /\ after.s = "throw"
        THEN Run(ev1 \o ev2 \o ev3, Thrown("after"))
      ELSE Run(ev1 \o ev2 \o ev3, ThrowApiError(ErrorMessage(Get(options.message))))

(***************************************************************************)
(* handleError(seek, error) on store s, seek a single key.                 *)
(***************************************************************************)
\* the statement `this.handleErrorObject(...); return true`
ThenReturnTrue(run) ==
  IF Throws(run.out) THEN run ELSE Run(run.ev, Return("true"))

\* a bug: a resolver that returns anything truthy has handled the error
handleErrorKeyTrustsResolver(regs, s, seek, error) ==
  LET key == JSString(seek)
      found == find(regs, s, key)
      handler == found.h
  IN  IF ~HandlerTruthy(handler) THEN Run(found.ev, Return("false"))
      ELSE IF handler.t = "string" THEN
        LET r == ThenReturnTrue(handleErrorObject(regs, s, error,
                   Obj(Str(handler.s), Absent, Absent, Absent, Absent), key))
        IN  Run(found.ev \o r.ev, r.out)
      ELSE IF handler.t = "function" THEN
        LET call == found.ev \o <<ResolverEvent(key)>>
        IN  IF handler.r.t = "throw" THEN Run(call, Thrown("resolver"))
            ELSE IF isErrorHandlerObject(handler.r) THEN
              LET r == ThenReturnTrue(
                         handleErrorObject(regs, s, error, handler.r.o, key))
              IN  Run(call \o r.ev, r.out)
            ELSE IF handler.r.t \in {"object", "array"} \/ Truthy(handler.r)
              THEN Run(call, Return("true"))
            ELSE Run(call, Return("false"))
      ELSE IF isErrorHandlerObject(AsValue(handler)) THEN
        LET r == ThenReturnTrue(handleErrorObject(regs, s, error, handler.o, key))
        IN  Run(found.ev \o r.ev, r.out)
      ELSE Run(found.ev, Return("false"))

\* what follows the lookup: found is the result of find and key the key
handleErrorFound(regs, s, key, error, found, handler) ==
  IF ~HandlerTruthy(handler) THEN Run(found.ev, Return("false"))
  ELSE IF handler.t = "string" THEN
    Once({Run(found.ev \o r.ev, ThenReturnTrue(r).out) :
            r \in {handleErrorObject(regs, s, error,
                      Obj(Str(handler.s), Absent, Absent, Absent, Absent), key)}})
  ELSE IF handler.t = "function" THEN
    LET call == found.ev \o <<ResolverEvent(key)>>
    IN  IF handler.r.t = "throw" THEN Run(call, Thrown("resolver"))
        ELSE IF isErrorHandlerObject(handler.r) THEN
          Once({Run(call \o r.ev, ThenReturnTrue(r).out) :
                  r \in {handleErrorObject(regs, s, error, handler.r.o, key)}})
        ELSE Run(call, Return("false"))
  ELSE IF isErrorHandlerObject(AsValue(handler)) THEN
    Once({Run(found.ev \o r.ev, ThenReturnTrue(r).out) :
            r \in {handleErrorObject(regs, s, error, handler.o, key)}})
  ELSE Run(found.ev, Return("false"))

handleErrorKey(regs, s, seek, error) ==
  Once({handleErrorFound(regs, s, JSString(seek), error, found, found.h) :
          found \in {find(regs, s, JSString(seek))}})

\* a bug: the keys are tried from the last to the first
RECURSIVE handleErrorSomeReversed(_, _, _, _)
handleErrorSomeReversed(regs, s, keys, error) ==
  IF keys = <<>> THEN Run(<<>>, Return("false"))
  ELSE LET last1 == keys[Len(keys)]
           front == SubSeq(keys, 1, Len(keys) - 1)
       IN  IF last1.t = "undefined"
             THEN handleErrorSomeReversed(regs, s, front, error)
           ELSE LET r == handleErrorKey(regs, s, last1, error)
                IN  IF Throws(r.out) \/ r.out = Return("true") THEN r
                    ELSE LET rest == handleErrorSomeReversed(regs, s, front, error)
                         IN  Run(r.ev \o rest.ev, rest.out)

\* seek.some((key) => key !== undefined && this.handleError(String(key), error))
RECURSIVE handleErrorSome(_, _, _, _)
handleErrorSome(regs, s, keys, error) ==
  IF keys = <<>> THEN Run(<<>>, Return("false"))
  ELSE IF Head(keys).t = "undefined"
    THEN handleErrorSome(regs, s, Tail(keys), error)
  ELSE Once({IF Throws(r.out) \/ r.out = Return("true") THEN r
             ELSE Once({Run(r.ev \o rest.ev, rest.out) :
                          rest \in {handleErrorSome(regs, s, Tail(keys), error)}}) :
               r \in {handleErrorKey(regs, s, Head(keys), error)}})

\* handleError(seek, error): seek is [isArray, keys]; a single key is the
\* one element of keys
SingleKey(k) == [isArray |-> FALSE, keys |-> <<k>>]
KeyArray(ks) == [isArray |-> TRUE, keys |-> ks]
handleError(regs, s, seek, error) ==
  IF seek.isArray THEN handleErrorSome(regs, s, seek.keys, error)
  ELSE handleErrorKey(regs, s, seek.keys[1], error)

(***************************************************************************)
(* Failures: the value given to responseErrorHandler.  kind tells what     *)
(* the type tests of the code see: "null", "axios" (isAxiosError), "error" *)
(* (instanceof Error) or "other".  An Axios failure has name, message and  *)
(* code, an optional response with optional data and status, and an        *)
(* optional config with raw and silent.                                    *)
(***************************************************************************)
NoData == [message |-> Absent, description |-> Absent, code |-> Absent,
           status |-> Absent]
Failure(kind, name, message, code, hasResponse, hasData, data, status, hasConfig, raw, silent) ==
  [kind |-> kind, name |-> name, message |-> message, code |-> code,
   hasResponse |-> hasResponse, hasData |-> hasData, data |-> data,
   status |-> status, hasConfig |-> hasConfig, raw |-> raw, silent |-> silent]
NullFailure ==
  Failure("null", Absent, Absent, Absent, FALSE, FALSE, NoData, Absent,
          FALSE, Absent, Absent)
\* a thrown value that is neither null, nor an Error, nor an Axios failure
OtherFailure ==
  Failure("other", Absent, Absent, Absent, FALSE, FALSE, NoData, Absent,
          FALSE, Absent, Absent)
\* new Error(message) with the given name
GenericError(name, message) ==
  Failure("error", Str(name), Str(message), Absent, FALSE, FALSE, NoData,
          Absent, FALSE, Absent, Absent)

(***************************************************************************)
(* handleAxiosError(error, direct) on store s.                             *)
(***************************************************************************)
\* data?.f
DataField(error, f) ==
  IF error.hasResponse /\ error.hasData THEN Get(error.data[f]) ELSE Undefined
\* config?.f
ConfigField(error, f) ==
  IF error.hasConfig THEN Get(error[f]) ELSE Undefined

\* the candidate keys, in the order they are tried
Seekers(error) ==
  LET dstatus == DataField(error, "status")
      rstatus == IF error.hasResponse THEN Get(error.status) ELSE Undefined
  IN  << DataField(error, "code"),
         Get(error.code),
         Get(error.name),
         IF Truthy(dstatus) THEN Str(JSString(dstatus)) ELSE Undefined,
         IF Truthy(rstatus) THEN Str(JSString(rstatus)) ELSE Undefined >>

\* data?.message ?? data?.description ?? error.message
FallbackMessage(error) ==
  LET m == DataField(error, "message")
      d == DataField(error, "description")
  IN  IF ~Nullish(m) THEN m ELSE IF ~Nullish(d) THEN d ELSE Get(error.message)

\* the condition of the fallback branch
HasFallback(error) ==
  LET m == DataField(error, "message")
      d == DataField(error, "description")
  IN  \/ Truthy(m) /\ m.t = "string"
      \/ Truthy(d) /\ d.t = "string"
      \/ Truthy(Get(error.message))

\* a bug: raw is honoured whatever direct is
RawOverrideIgnoresDirect(error, direct) == Truthy(ConfigField(error, "raw"))
\* a bug: raw is never honoured
RawOverrideMissing(error, direct) == FALSE

\* the raw override: if (!direct && config?.raw) throw error
RawOverride(error, direct) == ~direct /\ Truthy(ConfigField(error, "raw"))

\* a bug: the body's message is not looked at before the registry
BodyMessageSkipped(error) == FALSE

\* the body's message wins: data?.message && typeof data.message === 'string'
BodyMessageWins(error) ==
  LET message == DataField(error, "message")
  IN  Truthy(message) /\ message.t = "string"

handleAxiosError(regs, s, error, direct) ==
  LET silent == ConfigField(error, "silent")
  IN  IF RawOverride(error, direct) THEN Run(<<>>, Rethrow)
      ELSE IF BodyMessageWins(error) THEN
        handleErrorObject(regs, s, error,
                          Obj(DataField(error, "message"), Absent, Absent, silent,
                              Absent),
                          "")
      ELSE
        Once({IF Throws(handled.out) THEN handled
              ELSE IF handled.out = Return("false") /\ HasFallback(error) THEN
                Once({Run(handled.ev \o r.ev, r.out) :
                        r \in {handleErrorObject(regs, s, error,
                                  Obj(FallbackMessage(error), Absent, Absent, silent,
                                      Absent),
                                  "")}})
              ELSE Run(handled.ev, Return("undefined")) :
                handled \in {handleError(regs, s, KeyArray(Seekers(error)), error)}})

(***************************************************************************)
(* responseErrorHandler(error, direct) on store s.                         *)
(***************************************************************************)
\* a bug: null is looked up under String(null) before the Error is raised
responseErrorHandlerLooksUpNull(regs, s, error, direct) ==
  IF error.kind = "null" THEN
    LET r == handleError(regs, s, SingleKey(Scalar("null", "", 0)), error)
    IN  IF Throws(r.out) THEN r ELSE Run(r.ev, ThrowNullError)
  ELSE IF error.kind = "axios" THEN handleAxiosError(regs, s, error, direct)
  ELSE IF error.kind = "error" THEN
    LET r == handleError(regs, s, SingleKey(Get(error.name)), error)
    IN  IF Throws(r.out) THEN r ELSE Run(r.ev, Rethrow)
  ELSE Run(<<>>, Rethrow)

\* a bug: an unhandled generic error is wrapped like a transport failure
responseErrorHandlerWrapsGeneric(regs, s, error, direct) ==
  IF error.kind = "null" THEN Run(<<>>, ThrowNullError)
  ELSE IF error.kind = "axios" THEN handleAxiosError(regs, s, error, direct)
  ELSE IF error.kind = "error" THEN
    LET r == handleError(regs, s, SingleKey(Get(error.name)), error)
    IN  IF Throws(r.out) THEN r
        ELSE LET w == handleErrorObject(regs, s, error,
                        Obj(Get(error.message), Absent, Absent, Absent, Absent), "")
             IN  Run(r.ev \o w.ev, w.out)
  ELSE Run(<<>>, Rethrow)

responseErrorHandler(regs, s, error, direct) ==
  IF error.kind = "null" THEN Run(<<>>, ThrowNullError)
  ELSE IF error.kind = "axios" THEN handleAxiosError(regs, s, error, direct)
  ELSE IF error.kind = "error" THEN
    Once({IF Throws(r.out) THEN r ELSE Run(r.ev, Rethrow) :
            r \in {handleError(regs, s, SingleKey(Get(error.name)), error)}})
  ELSE Run(<<>>, Rethrow)

(***************************************************************************)
(* createDealWith(globalHandlers, notifier)(solutions, ignoreGlobal)(error)*)
(* The local store lives for the call only; Local is its identity.         *)
(***************************************************************************)
Local == "local"
\* the value of the `direct` argument in the closure
DealWithDirect == TRUE
\* a bug: the notifier given to createDealWith is not passed to the local store
dealWithLocalDropsNotifier(globalHandlers, notifier, solutions, ignoreGlobal) ==
  NewRegistry(IF ignoreGlobal THEN Null ELSE globalHandlers, solutions, NotCallable)

dealWithLocal(globalHandlers, notifier, solutions, ignoreGlobal) ==
  NewRegistry(IF ignoreGlobal THEN Null ELSE globalHandlers, solutions, notifier)
dealWith(regs, globalHandlers, notifier, solutions, ignoreGlobal, error) ==
  Once({responseErrorHandler(regs @@ (Local :> local), Local, error, DealWithDirect) :
          local \in {dealWithLocal(globalHandlers, notifier, solutions, ignoreGlobal)}})

(***************************************************************************)
(* The state: the stores of the program and the record of the call in      *)
(* progress or just ended.  A caller makes one call at a time: a call is   *)
(* made when no call is recorded, and Done forgets the record.             *)
(***************************************************************************)
VARIABLES regs, last
vars == <<regs, last>>

\* bounds of the model
MaxEntries == 2
MaxKeys == 2

Global == "global"
Child == "child"
Leaf == "leaf"
Keys == {"ERR_A", "ERR_B"}
Notifiers == {"notifierA", "notifierB"}

\* a descriptor with both hooks and a notify payload
HookedDescriptor ==
  ObjectHandler(Obj(Str("described"), Fn("ok"), Fn("ok"), Bool(FALSE), Payload("extra")))
SilentDescriptor ==
  ObjectHandler(Obj(Str("quiet"), Fn("ok"), Fn("ok"), Bool(TRUE), Absent))
BeforeThrows ==
  ObjectHandler(Obj(Str("before fails"), Fn("throw"), Fn("ok"), Absent, Absent))
AfterThrows ==
  ObjectHandler(Obj(Str("after fails"), Fn("ok"), Fn("throw"), Absent, Absent))
SilentAfterThrows ==
  ObjectHandler(Obj(Str("quiet, after fails"), Absent, Fn("throw"), Bool(TRUE), Absent))
Resolves ==
  FunctionHandler("resolves",
                  ObjValue(Obj(Str("resolved"), Absent, Absent, Absent, Absent)))
Declines == FunctionHandler("declines", BoolValue(TRUE))

\* the handlers given to register
Handlers ==
  {StringHandler("plain"), StringHandler(""), HookedDescriptor, SilentDescriptor,
   BeforeThrows, AfterThrows, SilentAfterThrows, Resolves, Declines}

NoDeal == [used |-> FALSE, globalHandlers |-> "", notifier |-> "",
           solutions |-> <<>>, ignoreGlobal |-> FALSE]
Call(op, self, seek, error, direct, deal, run) ==
  [op |-> op, self |-> self, seek |-> seek, error |-> error, direct |-> direct,
   deal |-> deal, run |-> run, found |-> NoHandler]
NoCall ==
  Call("none", "", SingleKey(Undefined), OtherFailure, FALSE, NoDeal,
       Run(<<>>, Return("undefined")))
Idle == last.op = "none"

RECURSIVE SumEntries(_, _)
SumEntries(r, S) ==
  IF S = {} THEN 0
  ELSE LET s == CHOOSE x \in S : TRUE
       IN  Cardinality(DOMAIN r[s].handlers) + SumEntries(r, S \ {s})
Entries(r) == SumEntries(r, DOMAIN r)

\* sequences over S of length at most n
RECURSIVE SeqsUpTo(_, _)
SeqsUpTo(S, n) ==
  IF n = 0 THEN {<<>>}
  ELSE LET shorter == SeqsUpTo(S, n - 1)
       IN  shorter \cup {Append(q, x) : q \in shorter, x \in S}

\* the program has built a global store and a child of it
TwoStores ==
  (Global :> NewRegistry(Null, <<>>, "notifierA")) @@
  (Child :> NewRegistry(Global, <<>>, "notifierB"))

Init ==
  /\ regs = TwoStores
  /\ last = NoCall

\* register(k, h) on a store, k drawn from K and h from H
RegisterOn(K, H) ==
  /\ Idle
  /\ \E s \in DOMAIN regs, k \in K, h \in H :
       LET after == [regs EXCEPT ![s] = register(regs[s], k, h)]
       IN  /\ Entries(after) <= MaxEntries
           /\ regs' = after
  /\ UNCHANGED last

\* register(k, h) on a store, h drawn from H
Register(H) == RegisterOn(Keys, H)

\* unregister(k) on a store, k drawn from K
UnregisterOn(K) ==
  /\ Idle
  /\ \E s \in DOMAIN regs, k \in K :
       regs' = [regs EXCEPT ![s] = unregister(regs[s], k)]
  /\ UNCHANGED last

Unregister == UnregisterOn(Keys)

\* Object.entries of an input object: its keys are distinct
Inputs(H, n) ==
  {q \in SeqsUpTo(Keys \X H, n) :
     \A i, j \in 1..Len(q) : i # j => q[i][1] # q[j][1]}
\* the input objects given to registerMany
HandlerInputs == Inputs(Handlers, Cardinality(Keys))

RegisterMany ==
  /\ Idle
  /\ \E s \in DOMAIN regs, input \in HandlerInputs :
       LET after == [regs EXCEPT ![s] = registerMany(regs[s], input)]
       IN  /\ Entries(after) <= MaxEntries
           /\ regs' = after
  /\ UNCHANGED last

\* the keys and key arrays given to handleError
SeekElements == {Undefined} \cup {Str(k) : k \in Keys}
Seeks ==
  {SingleKey(Str(k)) : k \in Keys} \cup
  {KeyArray(ks) : ks \in SeqsUpTo(SeekElements, MaxKeys)}

SampleError == GenericError("Error", "test")

HandleError ==
  /\ Idle
  /\ \E s \in DOMAIN regs, seek \in Seeks :
       last' = Call("handleError", s, seek, SampleError, FALSE, NoDeal,
                    handleError(regs, s, seek, SampleError))
  /\ UNCHANGED regs

\* the caller has caught the error or read the result
Done ==
  /\ ~Idle
  /\ last' = NoCall
  /\ UNCHANGED regs

Next ==
  \/ Register(Handlers)
  \/ Unregister
  \/ RegisterMany
  \/ HandleError
  \/ Done

Spec == Init /\ [][Next]_vars

(***************************************************************************)
(* Dispatch: responseErrorHandler and the closures of createDealWith, on   *)
(* failures drawn from three families of Axios failures (the body's        *)
(* message and description, the candidate keys, raw), generic errors,      *)
(* null and a thrown non-error.                                            *)
(***************************************************************************)
AxiosFailure(message, code, hasResponse, hasData, data, status, hasConfig, raw, silent) ==
  Failure("axios", Str("AxiosError"), Str(message), code, hasResponse, hasData,
          data, status, hasConfig, raw, silent)
Data(message, description, code, status) ==
  [message |-> message, description |-> description, code |-> code,
   status |-> status]

BodyMessages == {Absent, Str(""), Str("msg API"), Num(42)}
BodyDescriptions == {Absent, Str(""), Str("desc API"), Num(7)}
FailureMessages == {"", "boom message"}
SilentFlags == {Absent, Bool(TRUE)}

\* the body's message and description vary; error.code is a key
BodyFailures ==
  {AxiosFailure(m, Str("ERR_A"), TRUE, TRUE, Data(dm, dd, Absent, Absent), Absent,
                TRUE, Absent, silent) :
     m \in FailureMessages, dm \in BodyMessages, dd \in BodyDescriptions,
     silent \in SilentFlags}

\* the candidate keys vary
KeyedFailures ==
  {AxiosFailure("boom message", code, TRUE, TRUE, Data(Absent, Absent, dcode, dstatus),
                rstatus, TRUE, Absent, silent) :
     code \in {Absent, Str("ERR_A")}, dcode \in {Absent, Str("ERR_B")},
     dstatus \in {Absent, Num(0), Num(404)}, rstatus \in {Absent, Num(500)},
     silent \in SilentFlags}

\* no response, no data or no config
BareFailures ==
  {AxiosFailure(m, Str("ERR_A"), FALSE, FALSE, NoData, Absent, FALSE, Absent, Absent) :
     m \in FailureMessages} \cup
  {AxiosFailure(m, Absent, TRUE, FALSE, NoData, Num(500), TRUE, Bool(FALSE), Bool(FALSE)) :
     m \in FailureMessages}

\* the same failure with config.raw set to raw
WithRaw(f, raw) == [f EXCEPT !.hasConfig = TRUE, !.raw = raw]

\* config.raw is true: on a body message, on a key, on the fallback
RawFailures ==
  {WithRaw(AxiosFailure(m, Str("ERR_A"), TRUE, TRUE, Data(dm, Absent, Absent, Absent),
                        Num(500), TRUE, Absent, silent), Bool(TRUE)) :
     m \in FailureMessages, dm \in {Absent, Str("msg API")}, silent \in SilentFlags}

AxiosFailures == BodyFailures \cup KeyedFailures \cup BareFailures \cup RawFailures

Failures ==
  AxiosFailures \cup
  {NullFailure, OtherFailure, GenericError("ERR_A", "test"), SampleError}

\* the handlers given to register in the dispatch specification
DispatchHandlers ==
  {StringHandler("plain"), StringHandler(""), HookedDescriptor, SilentDescriptor,
   Declines}

\* responseErrorHandler(error, direct) on a store, error drawn from F
ResponseErrorHandlerOn(F) ==
  /\ Idle
  /\ \E s \in DOMAIN regs, error \in F, direct \in BOOLEAN :
       last' = Call("responseErrorHandler", s, SingleKey(Undefined), error, direct,
                    NoDeal, responseErrorHandler(regs, s, error, direct))
  /\ UNCHANGED regs

ResponseErrorHandler == ResponseErrorHandlerOn(Failures)

\* the arguments of createDealWith and of the dealWith it returns
LocalHandlers == {StringHandler("local"), StringHandler(""), Declines}
Solutions == Inputs(LocalHandlers, 1)
DealWithFailures ==
  RawFailures \cup BareFailures \cup {NullFailure, GenericError("ERR_A", "test")}

\* createDealWith(g, n)(solutions, ignoreGlobal)(error), solutions drawn
\* from S and error from F
DealWithOn(S, F) ==
  /\ Idle
  /\ \E g \in DOMAIN regs, n \in {NotCallable, "notifierL"},
        solutions \in S, ignoreGlobal \in BOOLEAN, error \in F :
       last' = Call("dealWith", Local, SingleKey(Undefined), error, DealWithDirect,
                    [used |-> TRUE, globalHandlers |-> g, notifier |-> n,
                     solutions |-> solutions, ignoreGlobal |-> ignoreGlobal],
                    dealWith(regs, g, n, solutions, ignoreGlobal, error))
  /\ UNCHANGED regs

DealWith == DealWithOn(Solutions, DealWithFailures)

NextDispatch ==
  \/ Register(DispatchHandlers)
  \/ Unregister
  \/ ResponseErrorHandler
  \/ DealWith
  \/ Done

SpecDispatch == Init /\ [][NextDispatch]_vars

(***************************************************************************)
(* A chain of three stores (leaf, child, global) and find called on it.    *)
(***************************************************************************)
ThreeStores == TwoStores @@ (Leaf :> NewRegistry(Child, <<>>, DefaultNotifier))

InitChain ==
  /\ regs = ThreeStores
  /\ last = NoCall

\* the handlers given to register in the chain specification
ChainHandlers == {StringHandler("plain"), StringHandler(""), Declines}

\* find(k) on store s: the value returned is recorded in last.found
Find ==
  /\ Idle
  /\ \E s \in DOMAIN regs, k \in Keys :
       LET r == find(regs, s, k)
       IN  last' = [Call("find", s, SingleKey(Str(k)), OtherFailure, FALSE, NoDeal,
                         Run(r.ev, Return("handler")))
                    EXCEPT !.found = r.h]
  /\ UNCHANGED regs

NextChain ==
  \/ Register(ChainHandlers)
  \/ Unregister
  \/ Find
  \/ Done

SpecChain == InitChain /\ [][NextChain]_vars

(***************************************************************************)
(* One parentless store, every shape of handler, and the chainable store   *)
(* operations with the value they return.                                  *)
(***************************************************************************)
OneStore == (Global :> NewRegistry(Null, <<>>, "notifierA"))

InitStore ==
  /\ regs = OneStore
  /\ last = NoCall

\* resolver functions, by what they return
ReturnsFalse == FunctionHandler("returnsFalse", BoolValue(FALSE))
ReturnsNothing == FunctionHandler("returnsNothing", UndefinedValue)
ReturnsNull == FunctionHandler("returnsNull", Value("null", "", EmptyObj))
ReturnsEmptyObject == FunctionHandler("returnsEmptyObject", ObjValue(EmptyObj))
ReturnsArray == FunctionHandler("returnsArray", ArrayValue)
ReturnsString == FunctionHandler("returnsString", Value("string", "text", EmptyObj))
ResolvesSilentOnly ==
  FunctionHandler("resolvesSilentOnly",
                  ObjValue(Obj(Absent, Absent, Absent, Bool(TRUE), Absent)))
ResolvesHooked == FunctionHandler("resolvesHooked", ObjValue(HookedDescriptor.o))
ResolvesBeforeThrows ==
  FunctionHandler("resolvesBeforeThrows", ObjValue(BeforeThrows.o))
ResolvesAfterThrows ==
  FunctionHandler("resolvesAfterThrows", ObjValue(AfterThrows.o))
ResolverThrows == FunctionHandler("resolverThrows", Value("throw", "", EmptyObj))

\* objects: descriptors without a message, descriptors whose notify payload
\* holds a type or a message, and an object that is no descriptor
NoMessage == ObjectHandler(Obj(Absent, Fn("ok"), Absent, Absent, Absent))
UndefinedMessage == ObjectHandler(Obj(Undefined, Absent, Absent, Absent, Absent))
TypedDescriptor ==
  ObjectHandler(Obj(Str("typed"), Absent, Absent, Absent, Payload("type:warning")))
RetitledDescriptor ==
  ObjectHandler(Obj(Str("titled"), Absent, Absent, Absent, Payload("message:other")))
EmptyObject == ObjectHandler(EmptyObj)

\* the handlers given to register on the single store
StoreHandlers ==
  Handlers \cup
  {ReturnsFalse, ReturnsNothing, ReturnsNull, ReturnsEmptyObject, ReturnsArray,
   ReturnsString, ResolvesSilentOnly, ResolvesHooked, ResolvesBeforeThrows,
   ResolvesAfterThrows, ResolverThrows,
   NoMessage, UndefinedMessage, TypedDescriptor, RetitledDescriptor, EmptyObject,
   ArrayHandler}

\* a store operation that returns `this`
Chained(op, s, k) ==
  Call(op, s, SingleKey(k), OtherFailure, FALSE, NoDeal, Run(<<>>, Return(s)))

\* register(k, h), the returned value kept, h drawn from H
RegisterCallOn(H) ==
  /\ Idle
  /\ \E s \in DOMAIN regs, k \in Keys, h \in H :
       /\ regs' = [regs EXCEPT ![s] = register(regs[s], k, h)]
       /\ last' = Chained("register", s, Str(k))

RegisterCall == RegisterCallOn(StoreHandlers)

\* unregister(k), the returned value kept
UnregisterCall ==
  /\ Idle
  /\ \E s \in DOMAIN regs, k \in Keys :
       /\ regs' = [regs EXCEPT ![s] = unregister(regs[s], k)]
       /\ last' = Chained("unregister", s, Str(k))

\* the input objects given to registerMany on the single store
StoreInputs == Inputs(ChainHandlers, Cardinality(Keys))

\* registerMany(input), the returned value kept
RegisterManyCall ==
  /\ Idle
  /\ \E s \in DOMAIN regs, input \in StoreInputs :
       /\ regs' = [regs EXCEPT ![s] = registerMany(regs[s], input)]
       /\ last' = Chained("registerMany", s, Undefined)

NextStore ==
  \/ RegisterCall
  \/ UnregisterCall
  \/ RegisterManyCall
  \/ Find
  \/ HandleError
  \/ Done

SpecStore == InitStore /\ [][NextStore]_vars

(***************************************************************************)
(* Dispatch on stores whose keys are the candidate keys of the failures:   *)
(* codes, the name of an Axios failure, statuses, and "null".              *)
(***************************************************************************)
CandidateKeys == {"null", "ERR_A", "ERR_B", "AxiosError", "0", "404", "500"}
\* the handlers given to register under the candidate keys
KeyHandlers == {StringHandler("plain"), Declines}

\* a body whose code is null
NullCodeFailure ==
  AxiosFailure("boom message", Str("ERR_A"), TRUE, TRUE,
               Data(Absent, Absent, Scalar("null", "", 0), Absent), Num(500), TRUE,
               Absent, Absent)
\* an Error named "null"
NullNamedError == GenericError("null", "test")

CandidateFailures ==
  {f \in KeyedFailures : f.silent = Absent} \cup
  {NullCodeFailure, NullNamedError, NullFailure}

\* the solutions and failures given to the closures of createDealWith
CandidateSolutions ==
  {<<>>, << <<"null", StringHandler("local")>> >>, << <<"500", StringHandler("local")>> >>}
ScopedCandidateFailures == {NullFailure, NullCodeFailure}

NextKeys ==
  \/ RegisterOn(CandidateKeys, KeyHandlers)
  \/ UnregisterOn(CandidateKeys)
  \/ ResponseErrorHandlerOn(CandidateFailures)
  \/ DealWithOn(CandidateSolutions, ScopedCandidateFailures)
  \/ Done

SpecKeys == Init /\ [][NextKeys]_vars

(***************************************************************************)
(* Every entry point on the chain of two stores: handleError on keys and   *)
(* key arrays, responseErrorHandler and the closures of createDealWith,    *)
(* with every handler of Handlers (throwing hooks included).               *)
(***************************************************************************)
\* a failure of each path of the dispatch: body message, candidate key,
\* fallback on the description or on the message, no message at all, raw
CallFailures ==
  {f \in BodyFailures :
     /\ f.data.message \in {Absent, Str("msg API")}
     /\ f.data.description \in {Absent, Str("desc API")}
     /\ (f.data.message # Absent => f.data.description = Absent /\ f.message.s # "")} \cup
  {f \in RawFailures : f.silent = Absent /\ f.message.s # ""} \cup
  {NullFailure, OtherFailure, GenericError("ERR_A", "test"), SampleError}

CallSolutions ==
  {<<>>, << <<"ERR_A", HookedDescriptor>> >>, << <<"ERR_A", Declines>> >>}
ScopedCallFailures ==
  {f \in BareFailures : f.message.s # ""} \cup {GenericError("ERR_A", "test")}

NextCalls ==
  \/ Register(Handlers)
  \/ Unregister
  \/ HandleError
  \/ ResponseErrorHandlerOn(CallFailures)
  \/ DealWithOn(CallSolutions, ScopedCallFailures)
  \/ Done

SpecCalls == Init /\ [][NextCalls]_vars

(***************************************************************************)
(* Construction: stores are built one after the other, each with no parent *)
(* or with a parent that has been built before it.                         *)
(***************************************************************************)
Stores == {Global, Child, Leaf}

\* the initial handlers given to the constructor
BuildInputs == {<<>>, << <<"ERR_A", StringHandler("plain")>> >>}

\* id = new ErrorHandlerRegistry(parent, input): the parent is a store the
\* program holds, or none
Construct ==
  /\ Idle
  /\ \E id \in Stores \ DOMAIN regs, parent \in DOMAIN regs \cup {Null},
        input \in BuildInputs :
       LET after == regs @@ (id :> NewRegistry(parent, input, NotCallable))
       IN  /\ Entries(after) <= MaxEntries
           /\ regs' = after
  /\ UNCHANGED last

NextBuild ==
  \/ Construct
  \/ Register(ChainHandlers)
  \/ Unregister
  \/ Find
  \/ Done

SpecBuild == InitStore /\ [][NextBuild]_vars

(***************************************************************************)
(* Replacing the notifier of a store, and the notifications that follow.   *)
(***************************************************************************)
\* the values given to setNotifier: functions, and a value that is none
NotifierArguments == Notifiers \cup {"notifierC", NotCallable}

\* the handlers given to register while notifiers are replaced
NotifierHandlers == {StringHandler("plain"), Declines}

\* setNotifier(fn), the returned value kept; the record holds fn as the
\* argument of the call
SetNotifier ==
  /\ Idle
  /\ \E s \in DOMAIN regs, fn \in NotifierArguments :
       /\ regs' = [regs EXCEPT ![s] = setNotifier(regs[s], fn)]
       /\ last' = Chained("setNotifier", s, Str(fn))

NextNotifier ==
  \/ SetNotifier
  \/ Register(NotifierHandlers)
  \/ Unregister
  \/ HandleError
  \/ Done

SpecNotifier == Init /\ [][NextNotifier]_vars

(***************************************************************************)
(* A store and its parent under every operation: the store operations      *)
(* with the value they return, find, handleError and the dispatch.          *)
(***************************************************************************)
\* a generic error whose name is a key, and one whose name is none
ShareFailures == {GenericError("ERR_A", "test"), SampleError, NullFailure}

NextShare ==
  \/ RegisterCallOn(ChainHandlers)
  \/ UnregisterCall
  \/ RegisterManyCall
  \/ Find
  \/ HandleError
  \/ ResponseErrorHandlerOn(CallFailures)
  \/ DealWithOn(CallSolutions, ShareFailures)
  \/ Done

SpecShare == Init /\ [][NextShare]_vars

(***************************************************************************)
(* The type guard isErrorHandlerObject applied to values of every kind,    *)
(* and handleError on a store that holds objects of every kind.            *)
(***************************************************************************)
\* an array that has been given a message property
FieldedArray == Obj(Str("in array"), Absent, Absent, Absent, Absent)

\* the objects with exactly one of the five properties, and some with more
GuardObjects ==
  {EmptyObj,
   Obj(Str("oops"), Absent, Absent, Absent, Absent),
   Obj(Undefined, Absent, Absent, Absent, Absent),
   Obj(Absent, Fn("ok"), Absent, Absent, Absent),
   Obj(Absent, Absent, Fn("ok"), Absent, Absent),
   Obj(Absent, Absent, Absent, Bool(FALSE), Absent),
   Obj(Absent, Absent, Absent, Absent, Payload("")),
   Obj(Str("oops"), Absent, Absent, Bool(TRUE), Absent)}

\* the values given to isErrorHandlerObject
GuardValues ==
  {ObjValue(o) : o \in GuardObjects} \cup
  {Value("null", "", EmptyObj), UndefinedValue, Value("string", "", EmptyObj),
   Value("string", "string", EmptyObj), BoolValue(TRUE), BoolValue(FALSE),
   Value("number", "", EmptyObj), Value("function", "f", EmptyObj),
   ArrayValue, Value("array", "", FieldedArray)}

\* the handlers given to register: objects and arrays, descriptors or not
GuardHandlers ==
  {ObjectHandler(o) : o \in GuardObjects} \cup
  {ArrayHandler, Handler("array", "", FieldedArray, UndefinedValue),
   StringHandler("plain")}

\* isErrorHandlerObject(value): the value given is recorded in last.found
IsErrorHandlerObject ==
  /\ Idle
  /\ \E value \in GuardValues :
       last' = [Call("isErrorHandlerObject", "", SingleKey(Undefined), OtherFailure,
                     FALSE, NoDeal,
                     Run(<<>>, Return(IF isErrorHandlerObject(value) THEN "true"
                                      ELSE "false")))
                EXCEPT !.found = Handler(value.t, value.s, value.o, UndefinedValue)]
  /\ UNCHANGED regs

NextGuard ==
  \/ RegisterCallOn(GuardHandlers)
  \/ UnregisterCall
  \/ IsErrorHandlerObject
  \/ HandleError
  \/ Done

SpecGuard == InitStore /\ [][NextGuard]_vars

(***************************************************************************)
(* What the properties below speak of.                                     *)
(***************************************************************************)
\* the stores as the recorded call saw them (a scoped dispatch adds its
\* local store)
CallRegs ==
  IF last.deal.used
    THEN regs @@ (Local :> dealWithLocal(last.deal.globalHandlers, last.deal.notifier,
                                         last.deal.solutions, last.deal.ignoreGlobal))
  ELSE regs
CallNotifier == CallRegs[last.self].notifier

Ev == last.run.ev
\* the positions of the events of the kinds E
At(E) == {i \in DOMAIN Ev : Ev[i].e \in E}
Notified == At({"notify"})
\* the kinds of the hook and notifier events, in the order they happened
RECURSIVE Kinds(_)
Kinds(ev) ==
  IF ev = <<>> THEN <<>>
  ELSE IF Head(ev).e \in {"before", "notify", "after"}
    THEN <<Head(ev).e>> \o Kinds(Tail(ev))
  ELSE Kinds(Tail(ev))

\* a handler returned by find resolves to a Descriptor
ResolvesToDescriptor(h) ==
  \/ h.t = "string" /\ h.s # ""
  \/ h.t = "function" /\ h.r.t # "throw" /\ isErrorHandlerObject(h.r)
  \/ h.t = "object" /\ isErrorHandlerObject(AsValue(h))
\* and the Descriptor it resolves to
DescriptorOf(h) ==
  IF h.t = "string" THEN Obj(Str(h.s), Absent, Absent, Absent, Absent)
  ELSE IF h.t = "function" THEN h.r.o
  ELSE h.o
IsHook(x) == x.t = "function"
HookThrows(x) == x.t = "function" /\ x.s = "throw"
IsSilent(d) == Truthy(Get(d.silent))

\* the handler found for seek element x by the store of the recorded call
FoundFor(x) == find(CallRegs, last.self, JSString(x)).h

\* C1: for every string h registered under k on a store, handleError(k, f)
\* on that store raises an ApiError with message h and calls the store's
\* notifier with message h.
C1_StringHandlerRaisesAndNotifies ==
  (last.op = "handleError" /\ ~last.seek.isArray) =>
    LET own == MapGet(regs[last.self].handlers, JSString(last.seek.keys[1]))
    IN  own.t = "string" =>
          /\ last.run.out = ThrowApiError(own.s)
          /\ \E i \in Notified : /\ Ev[i].msg = Str(own.s)
                                 /\ Ev[i].to = regs[last.self].notifier

\* the positions of a key array whose key resolves to a Descriptor
Resolving(ks) ==
  {i \in 1..Len(ks) : ks[i].t # "undefined" /\ ResolvesToDescriptor(FoundFor(ks[i]))}
Least(S) == CHOOSE i \in S : \A j \in S : i <= j
Defined(ks, n) == {j \in 1..n : ks[j].t # "undefined"}

\* what C2 says of everything but the number of notifier calls: with no
\* resolving key the call returns false; otherwise it ends by a throw, only
\* the keys up to the first resolving one are looked up (once each, the
\* undefined entries skipped), only their resolvers are called, and the
\* hooks and the notification are those of the first resolving key.
FirstMatchWins(ks) ==
  LET R == Resolving(ks)
  IN  IF R = {} THEN /\ last.run.out = Return("false")
                     /\ At({"before", "notify", "after"}) = {}
      ELSE LET i == Least(R)
               d == DescriptorOf(FoundFor(ks[i]))
               tried == Defined(ks, i)
           IN  /\ Throws(last.run.out)
               /\ Cardinality({n \in At({"find"}) : Ev[n].store = last.self})
                    = Cardinality(tried)
               /\ \A n \in DOMAIN Ev : \E j \in tried : Ev[n].key = JSString(ks[j])
               /\ Cardinality(At({"resolver"}))
                    = Cardinality({j \in tried : FoundFor(ks[j]).t = "function"})
               /\ \A n \in At({"before", "notify", "after"}) :
                    Ev[n].key = JSString(ks[i])
               /\ \A n \in Notified : Ev[n].msg = Get(d.message)
               /\ Cardinality(Notified) <= 1

\* C2 (as amended): handleError over a key array is first-match-wins, and
\* the notifier is called exactly once when the executed Descriptor is not
\* silent and its before hook does not throw, and not at all otherwise.
C2_FirstMatchWins ==
  (last.op = "handleError" /\ last.seek.isArray) =>
    LET ks == last.seek.keys
        R == Resolving(ks)
    IN  /\ FirstMatchWins(ks)
        /\ R # {} =>
             LET d == DescriptorOf(FoundFor(ks[Least(R)]))
             IN  Cardinality(Notified)
                   = IF IsSilent(d) \/ HookThrows(Get(d.before)) THEN 0 ELSE 1

\* C2 as stated: the notifier is called exactly once whenever the executed
\* Descriptor is not silent.
C2_NotifiesOnceUnlessSilent ==
  (last.op = "handleError" /\ last.seek.isArray) =>
    LET ks == last.seek.keys
        R == Resolving(ks)
    IN  /\ FirstMatchWins(ks)
        /\ (R # {} /\ ~IsSilent(DescriptorOf(FoundFor(ks[Least(R)])))) =>
             Cardinality(Notified) = 1

\* a later registered key is passed by: the first key declines or is not
\* registered, the second resolves and is notified
C2_Witness ==
  /\ last.op = "handleError" /\ last.seek.isArray
  /\ Len(last.seek.keys) = 2
  /\ Resolving(last.seek.keys) = {2}
  /\ FoundFor(last.seek.keys[1]).t = "function"
  /\ Cardinality(At({"resolver"})) = 1
  /\ Cardinality(Notified) = 1
  /\ last.run.out.o = "ApiError"

\* the seek element whose Descriptor a handleError call executes, if any
Executes ==
  /\ last.op = "handleError"
  /\ IF last.seek.isArray THEN Resolving(last.seek.keys) # {}
     ELSE ResolvesToDescriptor(FoundFor(last.seek.keys[1]))
Executed ==
  IF last.seek.isArray THEN last.seek.keys[Least(Resolving(last.seek.keys))]
  ELSE last.seek.keys[1]

\* C4: executing a Descriptor runs before, the notifier (unless silent),
\* after, then raises; a throwing before hook stops before the notifier, a
\* throwing after hook stops after it, and the hook's exception propagates.
C4_HookOrder ==
  Executes =>
    LET d == DescriptorOf(FoundFor(Executed))
        b == IF IsHook(Get(d.before)) THEN <<"before">> ELSE <<>>
        n == IF IsSilent(d) THEN <<>> ELSE <<"notify">>
        a == IF IsHook(Get(d.after)) THEN <<"after">> ELSE <<>>
    IN  IF HookThrows(Get(d.before))
          THEN Kinds(Ev) = <<"before">> /\ last.run.out = Thrown("before")
        ELSE /\ Kinds(Ev) = b \o n \o a
             /\ last.run.out = IF HookThrows(Get(d.after)) THEN Thrown("after")
                               ELSE ThrowApiError(ErrorMessage(Get(d.message)))

\* the after hook threw once the notifier had been called
C4_Witness ==
  /\ Executes
  /\ last.run.out = Thrown("after")
  /\ Kinds(Ev) = <<"before", "notify", "after">>

\* the nearest store, from s toward the root, that holds an entry for k
RECURSIVE Nearest(_, _)
Nearest(s, k) ==
  IF k \in DOMAIN regs[s].handlers THEN s
  ELSE IF regs[s].parent = Null THEN Null
  ELSE Nearest(regs[s].parent, k)

\* C3: find(k) returns the entry of the nearest store of the chain that
\* holds k (the store's own entry before any ancestor's), whatever the
\* handler value, and signals absence when no store of the chain holds k.
C3_FindDelegatesAndShadows ==
  last.op = "find" =>
    LET k == JSString(last.seek.keys[1])
        n == Nearest(last.self, k)
    IN  last.found = IF n = Null THEN NoHandler ELSE regs[n].handlers[k]

(***************************************************************************)
(* Dispatch.                                                               *)
(***************************************************************************)
IsDispatch == last.op \in {"responseErrorHandler", "dealWith"}
IsAxios == last.error.kind = "axios"
\* the call took the raw passthrough
RawPassed == ~last.direct /\ Truthy(ConfigField(last.error, "raw"))
BodyMessage == DataField(last.error, "message")
BodyDescription == DataField(last.error, "description")
NonEmptyString(x) == x.t = "string" /\ x.s # ""
ConfigSilent == Truthy(ConfigField(last.error, "silent"))
\* a handler is registered, in the chain, under a candidate key of the failure
KeyHandlerRegistered ==
  \E i \in 1..Len(Seekers(last.error)) :
    /\ Seekers(last.error)[i].t # "undefined"
    /\ ResolvesToDescriptor(FoundFor(Seekers(last.error)[i]))

\* C5: an Axios failure that is not passed through raw and whose body has a
\* non-empty string message m ends in ApiError(m); the only event of the
\* call is the notification of m (none when config.silent): no lookup, no
\* resolver, no hook.
C5_BodyMessageWins ==
  (IsDispatch /\ IsAxios /\ ~RawPassed /\ NonEmptyString(BodyMessage)) =>
    /\ last.run.out = ThrowApiError(BodyMessage.s)
    /\ IF ConfigSilent THEN Ev = <<>>
       ELSE /\ Len(Ev) = 1
            /\ Ev[1].e = "notify"
            /\ Ev[1].msg = BodyMessage
            /\ Ev[1].to = CallNotifier

\* the body's message won over a handler registered under a candidate key
C5_Witness ==
  /\ IsDispatch /\ IsAxios /\ ~RawPassed /\ NonEmptyString(BodyMessage)
  /\ KeyHandlerRegistered
  /\ last.run.out = ThrowApiError("msg API")
  /\ Len(Ev) = 1

\* C6: in a dispatch that ends in an ApiError, the notifier is not called
\* when the failure is an Axios failure with config.silent, nor when the
\* Descriptor resolved from the registry is silent.
C6_SilentSuppresses ==
  (IsDispatch /\ last.run.out.o = "ApiError") =>
    /\ (IsAxios /\ ConfigSilent) => Notified = {}
    /\ \A n \in Notified :
         Ev[n].key # "" =>
           ~IsSilent(DescriptorOf(find(CallRegs, last.self, Ev[n].key).h))

\* C7: with no resolving candidate key and no non-empty string body
\* message, the ApiError carries data.description when that is a non-empty
\* string, otherwise failure.message when that is non-empty; the notifier
\* gets the same message unless config.silent.
C7_FallbackPriority ==
  (IsDispatch /\ IsAxios /\ ~RawPassed /\ ~NonEmptyString(BodyMessage)
     /\ ~KeyHandlerRegistered
     /\ (NonEmptyString(BodyDescription) \/ NonEmptyString(Get(last.error.message)))) =>
    LET m == IF NonEmptyString(BodyDescription) THEN BodyDescription
             ELSE Get(last.error.message)
    IN  /\ last.run.out = ThrowApiError(m.s)
        /\ IF ConfigSilent THEN Notified = {}
           ELSE \E n \in Notified : Ev[n].msg = m

\* C8: a dispatch never returns: it ends by raising an ApiError, the
\* failure itself, or the error raised for a null failure.
C8_DispatchAlwaysRaises ==
  IsDispatch => last.run.out.o \in {"ApiError", "rethrow", "Error"}

\* C9: an Axios failure with config.raw dispatched with direct false is
\* re-raised itself, before anything else happens.
C9_RawPassthrough ==
  (last.op = "responseErrorHandler" /\ IsAxios /\ ~last.direct
     /\ Truthy(ConfigField(last.error, "raw"))) =>
    last.run = Run(<<>>, Rethrow)

\* raw passed through a body message and a registered handler
C9_Witness ==
  /\ last.op = "responseErrorHandler" /\ IsAxios /\ ~last.direct
  /\ Truthy(ConfigField(last.error, "raw"))
  /\ NonEmptyString(BodyMessage)
  /\ KeyHandlerRegistered
  /\ last.run.out = Rethrow

\* the same failure with config.raw negated
RawFlipped(f) ==
  [f EXCEPT !.raw = IF Truthy(Get(f.raw)) THEN Bool(FALSE) ELSE Bool(TRUE)]

\* C10: with direct true, an Axios failure has the same run whether
\* config.raw is true or false; and a scoped dispatch passes direct true,
\* so it never re-raises an Axios failure raw.
C10_DirectIgnoresRaw ==
  /\ (IsDispatch /\ IsAxios /\ last.direct /\ last.error.hasConfig) =>
       last.run = responseErrorHandler(CallRegs, last.self, RawFlipped(last.error), TRUE)
  /\ last.op = "dealWith" =>
       /\ last.direct
       /\ IsAxios => last.run.out # Rethrow

\* a scoped dispatch of a failure with config.raw ended in an ApiError
C10_Witness ==
  /\ last.op = "dealWith" /\ IsAxios
  /\ Truthy(ConfigField(last.error, "raw"))
  /\ last.run.out.o = "ApiError"

(***************************************************************************)
(* Resolver functions.                                                     *)
(***************************************************************************)
\* a well-formed Descriptor: a non-null, non-array object with at least one
\* of the recognised fields
WellFormed(v) ==
  /\ v.t = "object"
  /\ \/ v.o.message.t # "absent" \/ v.o.before.t # "absent"
     \/ v.o.after.t # "absent" \/ v.o.silent.t # "absent"
     \/ v.o.notify.t # "absent"
\* the events and the outcome of executing Descriptor d
ExecutesAs(d) ==
  LET b == IF IsHook(Get(d.before)) THEN <<"before">> ELSE <<>>
      n == IF IsSilent(d) THEN <<>> ELSE <<"notify">>
      a == IF IsHook(Get(d.after)) THEN <<"after">> ELSE <<>>
  IN  IF HookThrows(Get(d.before))
        THEN Kinds(Ev) = <<"before">> /\ last.run.out = Thrown("before")
      ELSE /\ Kinds(Ev) = b \o n \o a
           /\ last.run.out = IF HookThrows(Get(d.after)) THEN Thrown("after")
                             ELSE ThrowApiError(ErrorMessage(Get(d.message)))
\* the handler found for the single key of a handleError call is a function
\* that returns (it does not throw)
ResolverFound ==
  /\ last.op = "handleError" /\ ~last.seek.isArray
  /\ FoundFor(last.seek.keys[1]).t = "function"
  /\ FoundFor(last.seek.keys[1]).r.t # "throw"
Returned == FoundFor(last.seek.keys[1]).r
\* the resolver was called once and declined: false is returned and nothing
\* else happened
Declined ==
  /\ last.run.out = Return("false")
  /\ Cardinality(At({"resolver"})) = 1
  /\ At({"before", "notify", "after"}) = {}

\* C11 (as amended): a resolver whose return value is not a well-formed
\* Descriptor declines (handleError returns false, no hook, no notifier);
\* one that returns a well-formed Descriptor has it executed, which ends in
\* an ApiError unless one of the Descriptor's hooks throws.
C11_ResolverDeclinesOrExecutes ==
  ResolverFound =>
    IF WellFormed(Returned)
      THEN Cardinality(At({"resolver"})) = 1 /\ ExecutesAs(Returned.o)
    ELSE Declined

\* C11 as stated: a returned well-formed Descriptor always ends in an
\* ApiError.
C11_ResolvedAlwaysRaisesApiError ==
  ResolverFound =>
    IF WellFormed(Returned)
      THEN Cardinality(At({"resolver"})) = 1 /\ last.run.out.o = "ApiError"
    ELSE Declined

\* a resolver returned an object with none of the recognised fields
C11_Witness ==
  /\ ResolverFound
  /\ Returned = ObjValue(EmptyObj)
  /\ Declined

(***************************************************************************)
(* Scoped dispatch.                                                        *)
(***************************************************************************)
IsScoped == last.op = "dealWith"
\* the solutions of the closure, as a map
LocalMap == registerMany([handlers |-> EmptyMap], last.deal.solutions).handlers
\* the handler the closure is to resolve for key k: the local entry, else
\* (unless ignoreGlobal) what the global store finds
ScopedHandler(k) ==
  IF k \in DOMAIN LocalMap THEN LocalMap[k]
  ELSE IF last.deal.ignoreGlobal THEN NoHandler
  ELSE find(regs, last.deal.globalHandlers, k).h
\* a store other than the local one is consulted for k only when k has no
\* local entry and the global store is not ignored
LocalShadows ==
  \A i \in At({"find"}) :
    Ev[i].store # Local =>
      ~last.deal.ignoreGlobal /\ Ev[i].key \notin DOMAIN LocalMap
\* what is executed for a key is what the closure is to resolve for it
UsesScopedHandler ==
  /\ \A i \in At({"resolver"}) : ScopedHandler(Ev[i].key).t = "function"
  /\ \A i \in Notified :
       Ev[i].key # "" =>
         /\ ResolvesToDescriptor(ScopedHandler(Ev[i].key))
         /\ Ev[i].msg = Get(DescriptorOf(ScopedHandler(Ev[i].key)).message)
         /\ last.run.out = ThrowApiError(Ev[i].msg.s)
\* ignoreGlobal: the global store is never consulted, and a transport
\* failure none of whose keys resolves locally falls back to its own message
GlobalIgnored ==
  last.deal.ignoreGlobal =>
    /\ \A i \in At({"find"}) : Ev[i].store = Local
    /\ (IsAxios /\ ~NonEmptyString(BodyMessage)
          /\ NonEmptyString(Get(last.error.message))
          /\ \A i \in 1..Len(Seekers(last.error)) :
               LET x == Seekers(last.error)[i]
               IN  x.t # "undefined" =>
                     ~ResolvesToDescriptor(MapGet(LocalMap, JSString(x)))) =>
         last.run.out = ThrowApiError(Get(last.error.message).s)

\* C12: a scoped dispatch resolves a key locally first, a local entry
\* shadowing the global one; a key missing locally falls back to the global
\* store unless ignoreGlobal, and then no global handler is ever used.
C12_ScopedResolution ==
  IsScoped => LocalShadows /\ UsesScopedHandler /\ GlobalIgnored

(***************************************************************************)
(* Failures that are not transport failures.                               *)
(***************************************************************************)
IsGeneric == last.error.kind = "error"
FailureName == Get(last.error.name)

\* C13: a generic Error is looked up under its name; when nothing resolves
\* under that name (not registered, or the resolver declines) the failure
\* itself is re-raised and the notifier is not called; a value that is
\* neither null, nor a transport failure, nor an Error is re-raised with no
\* lookup and no notifier call.
C13_GenericPassThrough ==
  IsDispatch =>
    /\ IsGeneric =>
         /\ \E i \in At({"find"}) :
              Ev[i].store = last.self /\ Ev[i].key = JSString(FailureName)
         /\ \A i \in DOMAIN Ev : Ev[i].key = JSString(FailureName)
         /\ IF ResolvesToDescriptor(FoundFor(FailureName))
              THEN Throws(last.run.out) /\ last.run.out # Rethrow
            ELSE /\ last.run.out = Rethrow
                 /\ At({"before", "notify", "after"}) = {}
    /\ last.error.kind = "other" => last.run = Run(<<>>, Rethrow)

\* a resolver registered under the failure's name declined and the failure
\* was re-raised
C13_Witness ==
  /\ IsDispatch /\ IsGeneric
  /\ FoundFor(FailureName).t = "function"
  /\ Cardinality(At({"resolver"})) = 1
  /\ Notified = {}
  /\ last.run.out = Rethrow

(***************************************************************************)
(* The null failure.                                                       *)
(***************************************************************************)
\* C14: dispatching null, with either value of direct and whatever the
\* stores hold (a handler under the key "null" included), raises the plain
\* Error for a null failure, not an ApiError, and nothing else happens: no
\* lookup, no resolver, no hook, no notifier call.
C14_NullFailure ==
  (IsDispatch /\ last.error.kind = "null") =>
    /\ Ev = <<>>
    /\ last.run.out = ThrowNullError
    /\ last.run.out.o # "ApiError"

\* null was dispatched with direct true on a store that finds a handler
\* under the key "null"
C14_Witness ==
  /\ IsDispatch /\ last.error.kind = "null"
  /\ last.direct
  /\ ResolvesToDescriptor(FoundFor(Str("null")))
  /\ last.run.out.o = "Error"

(***************************************************************************)
(* The number of notifier calls.                                           *)
(***************************************************************************)
IsCall == IsDispatch \/ last.op = "handleError"
\* the Descriptor from which the ApiError of the recorded call was resolved
\* is silent: the registered one that was executed, or the one made from
\* the body or the failure's message, which is silent when config.silent is
ResolvedSilent ==
  IF last.op = "handleError" THEN IsSilent(DescriptorOf(FoundFor(Executed)))
  ELSE IF IsGeneric THEN IsSilent(DescriptorOf(FoundFor(FailureName)))
  ELSE IF ~NonEmptyString(BodyMessage) /\ KeyHandlerRegistered
    THEN LET ks == Seekers(last.error)
         IN  IsSilent(DescriptorOf(FoundFor(ks[Least(Resolving(ks))])))
  ELSE ConfigSilent

\* C15: a handleError call or a dispatch calls the notifier at most once;
\* exactly once when it ends in an ApiError resolved from a Descriptor that
\* is not silent; not at all when it returns false or re-raises the failure.
C15_NotifierAtMostOnce ==
  IsCall =>
    /\ Cardinality(Notified) <= 1
    /\ (last.run.out.o = "ApiError" /\ ~ResolvedSilent) => Cardinality(Notified) = 1
    /\ last.run.out \in {Return("false"), Rethrow} => Notified = {}

\* a dispatch executed a registered Descriptor with both hooks: one
\* notification between them
C15_Witness ==
  /\ IsDispatch /\ IsAxios
  /\ Kinds(Ev) = <<"before", "notify", "after">>
  /\ Cardinality(Notified) = 1
  /\ last.run.out.o = "ApiError"

CandidateFields(f) ==
  << DataField(f, "code"), Get(f.code), Get(f.name), DataField(f, "status"),
     IF f.hasResponse THEN Get(f.status) ELSE Undefined >>
\* the candidate key of a field: String(field), and none for an absent field
CandidateKey(x) == IF x.t = "undefined" THEN Undefined ELSE Str(JSString(x))
Candidates(f) == [i \in 1..5 |-> CandidateKey(CandidateFields(f)[i])]

\* the keys of the sequence ks that are defined, as strings, in order
RECURSIVE DefinedKeys(_)
DefinedKeys(ks) ==
  IF ks = <<>> THEN <<>>
  ELSE IF Head(ks).t = "undefined" THEN DefinedKeys(Tail(ks))
  ELSE <<JSString(Head(ks))>> \o DefinedKeys(Tail(ks))
\* the keys looked up on the store of the call, in the order of the lookups
RECURSIVE LookedUp(_)
LookedUp(ev) ==
  IF ev = <<>> THEN <<>>
  ELSE IF Head(ev).e = "find" /\ Head(ev).store = last.self
    THEN <<Head(ev).key>> \o LookedUp(Tail(ev))
  ELSE LookedUp(Tail(ev))
\* a is b with some elements left out
RECURSIVE IsSubSeq(_, _)
IsSubSeq(a, b) ==
  IF a = <<>> THEN TRUE
  ELSE IF b = <<>> THEN FALSE
  ELSE IF Head(a) = Head(b) THEN IsSubSeq(Tail(a), Tail(b))
  ELSE IsSubSeq(a, Tail(b))

\* a transport failure that reaches the candidate keys
ReachesKeys == IsDispatch /\ IsAxios /\ ~RawPassed /\ ~NonEmptyString(BodyMessage)

\* the lookups follow the order of ks, only keys of ks are looked up, the
\* resolvers called are those of the keys before the first that resolves,
\* and the Descriptor executed is the one of that key
PrecedenceOver(ks) ==
  LET R == Resolving(ks)
      upto == IF R = {} THEN Len(ks) ELSE Least(R)
  IN  /\ IsSubSeq(LookedUp(Ev), DefinedKeys(ks))
      /\ Cardinality(At({"resolver"}))
           = Cardinality({j \in 1..upto : ks[j].t # "undefined"
                                          /\ FoundFor(ks[j]).t = "function"})
      /\ IF R = {} THEN \A n \in At({"before", "notify", "after"}) : Ev[n].key = ""
         ELSE /\ \A n \in At({"before", "notify", "after"}) :
                   Ev[n].key = JSString(ks[Least(R)])
              /\ last.run.out = ThrowApiError(ErrorMessage(
                   Get(DescriptorOf(FoundFor(ks[Least(R)])).message)))

\* C17: with no body message, the handlers of a transport failure are tried
\* in the order data.code, failure.code, failure.name, String(data.status),
\* String(response.status), absent fields skipped, and the handler executed
\* is the one under the earliest of these keys that resolves to a Descriptor.
C17_CandidateKeyPrecedence ==
  ReachesKeys => PrecedenceOver(Candidates(last.error))

(***************************************************************************)
(* A parentless store as a map.                                            *)
(***************************************************************************)
IsFind == last.op = "find"
Parentless == regs[last.self].parent = Null
\* the entry the store holds for the key of the recorded find: the handler
\* of the most recent register of the key not unregistered since
OwnEntry == MapGet(regs[last.self].handlers, JSString(last.seek.keys[1]))
ReturnsSelf ==
  last.op \in {"register", "unregister", "registerMany"} =>
    last.run.out = Return(last.self)

\* C18: on a parentless store find(k) returns the handler of the most
\* recent register of k, whatever its value, and signals absence when k is
\* not registered; register, registerMany and unregister return the store.
C18_StoreIsMap ==
  /\ (IsFind /\ Parentless) => last.found = OwnEntry
  /\ ReturnsSelf

(***************************************************************************)
(* What the notifier is given.                                             *)
(***************************************************************************)
\* the notification is of type "negative" and its message is a string; when
\* the call ends in an ApiError, it is that error's message
AgreesWithError(n) ==
  /\ Ev[n].type = "negative"
  /\ Ev[n].msg.t = "string"
  /\ last.run.out.o = "ApiError" => last.run.out.v = Ev[n].msg.s

\* C19: whatever the Descriptor executed (with or without a message, with
\* any notify payload), a notification has type "negative" and a message
\* that is a string equal to the message of the ApiError raised by the call.
C19_NotificationAgreesWithError ==
  IsCall => \A n \in Notified : AgreesWithError(n)

(***************************************************************************)
(* The parent relation.                                                    *)
(***************************************************************************)
\* the store reached from s by n steps along parent, Null past the root
RECURSIVE Up(_, _)
Up(s, n) ==
  IF s = Null \/ n = 0 THEN s ELSE Up(regs[s].parent, n - 1)
\* every parent is a store, and from every store the root is passed within
\* as many steps as there are stores
Acyclic ==
  \A s \in DOMAIN regs :
    /\ regs[s].parent \in DOMAIN regs \cup {Null}
    /\ Up(s, Cardinality(DOMAIN regs)) = Null
\* a find visits the store it is called on, then each parent in turn, no
\* store twice
VisitsChainOnce ==
  IsFind =>
    /\ Len(Ev) >= 1 /\ Ev[1].store = last.self
    /\ \A i \in DOMAIN Ev : Ev[i].e = "find" /\ Ev[i].store = Up(last.self, i - 1)
    /\ \A i, j \in DOMAIN Ev : i # j => Ev[i].store # Ev[j].store
\* no step changes the parent of a store
ParentFixed ==
  \A s \in DOMAIN regs : s \in DOMAIN regs' /\ regs'[s].parent = regs[s].parent

\* C20: the parent of a store never changes once the store is built, the
\* parent relation is acyclic in every state, and find visits the stores of
\* the chain from the store toward the root, each at most once.
C20_ParentFixedAndAcyclic ==
  /\ [](Acyclic /\ VisitsChainOnce)
  /\ [][ParentFixed]_vars

\* a find went through a chain of three stores and found the key at the root
C20_Witness ==
  /\ IsFind
  /\ Len(Ev) = 3
  /\ regs[Ev[3].store].parent = Null
  /\ HandlerTruthy(last.found)

(***************************************************************************)
(* Which notifier is called.                                               *)
(***************************************************************************)
\* the notifier of the closures of createDealWith(global, n): n, or the
\* default notifier when n is not a function
ScopedNotifier ==
  IF last.deal.notifier = NotCallable THEN DefaultNotifier ELSE last.deal.notifier
\* the notifier of the store on which the recorded call was started
StartNotifier == IF IsScoped THEN ScopedNotifier ELSE regs[last.self].notifier
\* the stores of the chain above the store of the call
RECURSIVE AncestorsOf(_, _)
AncestorsOf(r, s) ==
  IF r[s].parent = Null THEN {} ELSE {r[s].parent} \cup AncestorsOf(r, r[s].parent)

\* C21: every notification of a call goes to the notifier of the store on
\* which the call was started, whichever store of the chain held the
\* handler; in a scoped dispatch it goes to the notifier given to
\* createDealWith (the default one when none was given) and never to the
\* notifier of the global store.
C21_NotifierOfStartingStore ==
  IsCall =>
    \A n \in Notified :
      /\ Ev[n].to = StartNotifier
      /\ \A a \in AncestorsOf(CallRegs, last.self) : Ev[n].to # regs[a].notifier

\* a scoped dispatch executed a handler held by the global store only and
\* notified the notifier given to createDealWith
C21_Witness ==
  /\ IsScoped /\ ~last.deal.ignoreGlobal
  /\ last.deal.notifier # NotCallable
  /\ \E n \in Notified :
       /\ Ev[n].key # "" /\ Ev[n].key \notin DOMAIN LocalMap
       /\ Ev[n].key \in DOMAIN regs[last.deal.globalHandlers].handlers
       /\ Ev[n].to = last.deal.notifier

(***************************************************************************)
(* A child's entry and its ancestors.                                      *)
(***************************************************************************)
\* a handleError call on one key, on a store that has a parent
OnChild ==
  /\ last.op = "handleError" /\ ~last.seek.isArray
  /\ regs[last.self].parent # Null
\* the entry of the store of the call is a resolver that declines
OwnDeclines ==
  /\ OwnEntry.t = "function"
  /\ OwnEntry.r.t # "throw"
  /\ ~WellFormed(OwnEntry.r)
\* no store above the store of the call is consulted
NoDelegation == \A i \in At({"find"}) : Ev[i].store = last.self
\* the parent is consulted only when the store holds no entry for the key
DelegatesOnlyWhenAbsent ==
  ~NoDelegation => JSString(last.seek.keys[1]) \notin DOMAIN regs[last.self].handlers

\* C22: when the child's own entry for k is a resolver that declines,
\* handleError(k, f) on the child returns false and no ancestor is looked
\* up or has its handler executed; the parent is consulted only when the
\* child has no entry for k.
C22_DecliningResolverShadows ==
  OnChild =>
    /\ OwnDeclines => (Declined /\ NoDelegation)
    /\ DelegatesOnlyWhenAbsent

(***************************************************************************)
(* setNotifier.                                                            *)
(***************************************************************************)
\* the notifications of a call go to the notifier its store has now
NotifiesCurrent ==
  last.op = "handleError" =>
    \A n \in Notified : Ev[n].to = regs[last.self].notifier
\* a step that is a call of setNotifier(fn) on store s
SetsNotifier(s, fn) ==
  /\ last'.op = "setNotifier" /\ last.op = "none"
  /\ last'.self = s /\ last'.seek.keys[1] = Str(fn)
\* such a step makes fn the notifier of s when fn is a function and leaves
\* it otherwise, changes nothing else and returns s; no other step changes
\* a notifier
SetNotifierStep ==
  /\ \A s \in DOMAIN regs, fn \in NotifierArguments :
       SetsNotifier(s, fn) =>
         /\ regs'[s].notifier = IF fn # NotCallable THEN fn ELSE regs[s].notifier
         /\ regs'[s].handlers = regs[s].handlers
         /\ regs'[s].parent = regs[s].parent
         /\ \A o \in DOMAIN regs \ {s} : regs'[o] = regs[o]
         /\ last'.run = Run(<<>>, Return(s))
  /\ last'.op # "setNotifier" =>
       \A s \in DOMAIN regs : regs'[s].notifier = regs[s].notifier

\* C23: setNotifier(fn) replaces the notifier of the store when fn is a
\* function, and every later notification of the store goes to fn; with any
\* other value the notifier stays and nothing is raised; the handlers and
\* the parent are unchanged and the store itself is returned.
C23_SetNotifier ==
  /\ []NotifiesCurrent
  /\ [][SetNotifierStep]_vars

\* a store whose notifier was replaced notified the new one
C23_Witness ==
  /\ last.op = "handleError"
  /\ regs[last.self].notifier = "notifierC"
  /\ \E n \in Notified : Ev[n].to = "notifierC"

(***************************************************************************)
(* A store and its ancestors.                                              *)
(***************************************************************************)
IsMutation(op) == op \in {"register", "registerMany", "unregister"}
IsHandling(op) == op \in {"handleError", "responseErrorHandler", "dealWith"}
\* what find(k) returns on store s of r
Finds(r, s, k) == find(r, s, k).h
\* a register, registerMany or unregister on a store leaves what find
\* returns on each of its ancestors
AncestorsKeep ==
  (last.op = "none" /\ IsMutation(last'.op)) =>
    \A p \in AncestorsOf(regs, last'.self), k \in Keys :
      Finds(regs', p, k) = Finds(regs, p, k)
\* handleError and the dispatch leave every mapping
HandlingKeeps ==
  (last.op = "none" /\ IsHandling(last'.op)) =>
    \A s \in DOMAIN regs : regs'[s].handlers = regs[s].handlers
\* once a store has been changed, each child of it finds, for the keys the
\* child does not hold, what the store finds now
ChildrenFollow ==
  (last.op = "none" /\ IsMutation(last'.op)) =>
    \A c \in DOMAIN regs, k \in Keys :
      (regs[c].parent = last'.self /\ k \notin DOMAIN regs'[c].handlers)
        => Finds(regs', c, k) = Finds(regs', last'.self, k)
\* a find on a store that has a parent and does not hold the key returns
\* what its parent finds now
FindReadsParent ==
  (IsFind /\ ~Parentless /\ JSString(last.seek.keys[1]) \notin DOMAIN regs[last.self].handlers)
    => last.found = Finds(regs, regs[last.self].parent, JSString(last.seek.keys[1]))

\* C24: register, registerMany and unregister on a child never change what
\* find returns on its parent; handleError and the dispatch never change a
\* mapping; and a change made on the parent is seen by the next find of the
\* child for every key the child does not hold (delegation reads the
\* parent's current state).
C24_IsolatedAndLive ==
  /\ []FindReadsParent
  /\ [][AncestorsKeep /\ HandlingKeeps /\ ChildrenFollow]_vars

\* the child, which does not hold the key, found the handler registered on
\* its parent after both had been built, while it holds another key itself
C24_Witness ==
  /\ IsFind /\ ~Parentless
  /\ JSString(last.seek.keys[1]) \notin DOMAIN regs[last.self].handlers
  /\ DOMAIN regs[last.self].handlers # {}
  /\ HandlerTruthy(last.found)
  /\ last.found = regs[regs[last.self].parent].handlers[JSString(last.seek.keys[1])]

(***************************************************************************)
(* The type guard.                                                         *)
(***************************************************************************)
IsGuard == last.op = "isErrorHandlerObject"
\* the value the guard was given
Guarded == AsValue(last.found)
\* the kinds of value the guard refuses whatever they hold
NeverDescriptor(v) ==
  \/ v.t \in {"null", "string", "boolean", "array"}
  \/ v = ObjValue(EmptyObj)
\* the handler found is an object or an array that is no Descriptor
FoundNoDescriptor ==
  /\ last.op = "handleError" /\ ~last.seek.isArray
  /\ FoundFor(last.seek.keys[1]).t \in {"object", "array"}
  /\ ~WellFormed(AsValue(FoundFor(last.seek.keys[1])))

\* C25: isErrorHandlerObject is true exactly for the objects, neither null
\* nor arrays, that expose one of message, before, after, silent, notify,
\* and false for null, strings, booleans, arrays and the empty object; and
\* handleError on a registered object for which it is false returns false
\* and neither runs a hook, notifies nor raises.
C25_DescriptorPredicate ==
  /\ IsGuard =>
       /\ last.run.out = Return(IF WellFormed(Guarded) THEN "true" ELSE "false")
       /\ NeverDescriptor(Guarded) => last.run.out = Return("false")
  /\ FoundNoDescriptor =>
       /\ last.run.out = Return("false")
       /\ At({"before", "notify", "after", "resolver"}) = {}

\* handleError found an array that exposes a message and returned false
C25_Witness ==
  /\ FoundNoDescriptor
  /\ FoundFor(last.seek.keys[1]).o = FieldedArray
  /\ last.run.out = Return("false")

====
